---- MODULE Spec2Model ----
(***************************************************************************)
(* Model of Convert_NFA_to_DFA.py: epsilon-closure subset construction     *)
(* (nfa_to_dfa), the DFA -> Turing-machine decider construction            *)
(* (dfa_to_tm_decider) and the tape simulator (simulate_tm); of            *)
(* CFG_Recog_Empty_Lang.py: the emptiness test of a context-free grammar;  *)
(* of ValidateTM.py and EnumerateTM.py: the enumeration and the validation *)
(* of Turing-machine descriptions.                                         *)
(*                                                                         *)
(* Python dictionaries are modelled as functions whose DOMAIN is the set   *)
(* of keys, Python lists as sequences, Python sets as sets.  Wherever the  *)
(* code iterates over a set, the iteration order is a nondeterministic     *)
(* choice among all orders.                                                *)
(***************************************************************************)
EXTENDS Integers, Sequences, FiniteSets, TLC

VARIABLES
    nfa,                \* argument of nfa_to_dfa
    pc,                 \* position of the running call
    subset_to_index,    \* nfa_to_dfa: frozenset -> DFA state index
    subsets,            \* nfa_to_dfa: list of subsets, in discovery order
    dfa_transitions,    \* nfa_to_dfa: (index, symbol) -> index
    dfa_accept_states,  \* nfa_to_dfa: set of accepting indices
    index,              \* nfa_to_dfa: while-loop counter
    sym,                \* nfa_to_dfa: position of the for loop in alphabet
    dfa,                \* value returned by nfa_to_dfa, argument of dfa_to_tm_decider
    first_dfa,          \* value returned by an earlier call of nfa_to_dfa on the same NFA
    tm,                 \* value returned by dfa_to_tm_decider, argument of simulate_tm
    input_string,       \* simulate_tm: argument
    max_steps,          \* simulate_tm: argument, <<>> for None and <<k>> for the integer k
    tape,               \* simulate_tm: list of tape symbols
    head,               \* simulate_tm: head position
    state,              \* simulate_tm: current state
    steps,              \* simulate_tm: transitions executed
    configurations,     \* simulate_tm: list of formatted configurations
    returned,           \* simulate_tm: <<>> while running, then <<verdict, configurations>>
    cfg,                \* argument of cfg_language_is_empty
    generating,         \* compute_generating_nonterminals: set of generating nonterminals
    changed,            \* compute_generating_nonterminals: flag of the while loop
    num_states,         \* enumerate_tms: number of states of the machines being yielded
    combo,              \* enumerate_tms: position of product(rules, ...), one rule index per table position
    ec_state_set,       \* epsilon_closure.state_set: argument
    ec_closure,         \* epsilon_closure.closure: set of states found so far
    ec_stack,           \* epsilon_closure.stack: worklist
    first_closure,      \* <<>>, or <<c>> for the value c an earlier call of epsilon_closure returned
    main_result,        \* main.result: <<>>, or <<r>> for the value r returned by the last call
    raised,             \* <<>>, or <<e>> for the exception e that ended the last call
    suspended,          \* <<>>, or <<f>> for the frame f of a second call that is not running now
    alone               \* <<>>, or <<f>> for the frame f of a returned call that is being run again alone

detVars == <<subset_to_index, subsets, dfa_transitions, dfa_accept_states, index, sym>>
simVars == <<input_string, max_steps, tape, head, state, steps, configurations, returned>>
cfgVars == <<cfg, generating, changed>>
genVars == <<num_states, combo>>
closureVars == <<ec_state_set, ec_closure, ec_stack, first_closure>>
callerVars == <<suspended, alone>>
\* the variables of CFG_Recog_Empty_Lang.py, ValidateTM.py and EnumerateTM.py and
\* of a call of epsilon_closure on its own
toolVars == <<cfg, generating, changed, num_states, combo, main_result, raised,
              ec_state_set, ec_closure, ec_stack, first_closure, suspended, alone>>
vars == <<nfa, pc, subset_to_index, subsets, dfa_transitions, dfa_accept_states,
          index, sym, dfa, first_dfa, tm, input_string, max_steps, tape, head, state, steps,
          configurations, returned, cfg, generating, changed, num_states, combo, main_result, raised,
          ec_state_set, ec_closure, ec_stack, first_closure, suspended, alone>>

-----------------------------------------------------------------------------
(* Bounds of the model *)

MaxEdges == 2          \* an NFA has at most this many (state, symbol, target) edges
MaxLen == 2            \* input strings have at most this many symbols
MaxSteps == 5          \* a simulation is followed for at most this many transitions
MaxWord == 4           \* languages are compared on the strings of at most this many symbols
MaxDfaStates == 2      \* a DFA given to dfa_to_tm_decider has at most this many states
NumTmStates == 1       \* a hand-built TM has this many states besides its two sinks
MaxRules == 1          \* a hand-built TM has at most this many transition rules
MaxBudget == 2         \* largest step budget given to simulate_tm
MaxProductions == 2    \* a grammar has at most this many productions
MaxRhs == 2            \* the right side of a production has at most this many symbols
MaxMachines == 1730    \* machines taken from a generator: the 1728 of one state, two of two states
MaxSharedEdges == 1    \* an NFA given to two calls at a time has at most this many edges
MaxSharedLen == 1      \* input strings of two simulations at a time have at most this many symbols

-----------------------------------------------------------------------------
(* Module-level constants of the program *)

INPUT_ALPHABET == <<"a", "b">>
TAPE_ALPHABET == <<"a", "b", "_">>
MOVES == <<"L", "R">>
EPS == "eps"

-----------------------------------------------------------------------------
(* Generic helpers *)

Range(f) == {f[i] : i \in DOMAIN f}

\* All orders in which the members of a set can be iterated
Orders(S) == {o \in [1..Cardinality(S) -> S] : Range(o) = S}

\* dictionary assignment d[k] = v
Put(d, k, v) == [x \in (DOMAIN d) \cup {k} |-> IF x = k THEN v ELSE d[x]]

EmptyDict == [x \in {} |-> 0]

\* Every string of at most n symbols of the set A
StringsUpTo(A, n) == UNION { [1..k -> A] : k \in 0..n }

-----------------------------------------------------------------------------
(* epsilon_closure *)

\* ClosureAddAll without line 29: a new state is not pushed on the stack
RECURSIVE ClosureAddAll_no_push(_, _, _)
ClosureAddAll_no_push(closure, stack, order) ==
    IF order = <<>> THEN [closure |-> closure, stack |-> stack]
    ELSE LET nxt == Head(order) IN
         IF nxt \notin closure
         THEN ClosureAddAll_no_push(closure \cup {nxt}, stack, Tail(order))
         ELSE ClosureAddAll_no_push(closure, stack, Tail(order))

\* ClosureAddAll leaving the for loop after the first state it adds
RECURSIVE ClosureAddAll_break(_, _, _)
ClosureAddAll_break(closure, stack, order) ==
    IF order = <<>> THEN [closure |-> closure, stack |-> stack]
    ELSE LET nxt == Head(order) IN
         IF nxt \notin closure
         THEN [closure |-> closure \cup {nxt}, stack |-> Append(stack, nxt)]
         ELSE ClosureAddAll_break(closure, stack, Tail(order))

\* ClosureAddAll without the test of line 27: every successor is pushed
RECURSIVE ClosureAddAll_push_always(_, _, _)
ClosureAddAll_push_always(closure, stack, order) ==
    IF order = <<>> THEN [closure |-> closure, stack |-> stack]
    ELSE LET nxt == Head(order) IN
         ClosureAddAll_push_always(closure \cup {nxt}, Append(stack, nxt), Tail(order))

\* The for loop of epsilon_closure over next_states in the order `order`
RECURSIVE ClosureAddAll(_, _, _)
ClosureAddAll(closure, stack, order) ==
    IF order = <<>> THEN [closure |-> closure, stack |-> stack]
    ELSE LET nxt == Head(order) IN
         IF nxt \notin closure
         THEN ClosureAddAll(closure \cup {nxt}, Append(stack, nxt), Tail(order))
         ELSE ClosureAddAll(closure, stack, Tail(order))

\* The while loop of epsilon_closure: the set of results it can return,
\* over every iteration order of the sets of successor states
RECURSIVE ClosureLoop(_, _, _)
ClosureLoop(n, closure, stack) ==
    IF stack = <<>> THEN {closure}
    ELSE LET popped == stack[Len(stack)]
             rest   == SubSeq(stack, 1, Len(stack) - 1)
             key    == <<popped, EPS>>
         IN  IF key \in DOMAIN n.transitions
             THEN UNION { LET r == ClosureAddAll(closure, rest, order)
                          IN  ClosureLoop(n, r.closure, r.stack)
                          : order \in Orders(n.transitions[key]) }
             ELSE ClosureLoop(n, closure, rest)

\* epsilon_closure following no epsilon move
epsilon_closure_no_moves(n, state_set) == {state_set}

\* The set of values epsilon_closure(nfa, state_set) can return
epsilon_closure(n, state_set) ==
    UNION { ClosureLoop(n, state_set, stack) : stack \in Orders(state_set) }

-----------------------------------------------------------------------------
(* move_nfa *)

RECURSIVE MoveLoop(_, _, _, _)
MoveLoop(n, result, order, symbol) ==
    IF order = <<>> THEN result
    ELSE LET key == <<Head(order), symbol>> IN
         IF key \in DOMAIN n.transitions
         THEN MoveLoop(n, result \cup n.transitions[key], Tail(order), symbol)
         ELSE MoveLoop(n, result, Tail(order), symbol)

\* The set of values move_nfa(nfa, state_set, symbol) can return
move_nfa(n, state_set, symbol) ==
    { MoveLoop(n, {}, order, symbol) : order \in Orders(state_set) }

-----------------------------------------------------------------------------
(* The NFAs given to nfa_to_dfa *)

\* the states of the NFAs the program builds
NfaStates == {0, 1, 2}

\* a state identifier outside the state set
OutsideState == Cardinality(NfaStates)

\* the alphabet of the NFAs the program builds
NfaAlphabet == <<"a", "b">>

EdgesOver(alphabet) == NfaStates \X (Range(alphabet) \cup {EPS}) \X NfaStates

\* Every set of at most max edges
EdgeSets(alphabet, max) ==
    {{}} \cup UNION { { Range(f) : f \in [1..k -> EdgesOver(alphabet)] } : k \in 1..max }

\* The transitions dictionary holding exactly the edges E
TransitionsOf(E) ==
    [key \in { <<e[1], e[2]>> : e \in E } |-> { e[3] : e \in { d \in E : d[1] = key[1] /\ d[2] = key[2] } }]

\* An NFA description with the edges E
MakeNfa(alphabet, s, F, E) ==
    [states |-> NfaStates, alphabet |-> alphabet, start_state |-> s,
     accept_states |-> F, transitions |-> TransitionsOf(E)]

\* every referenced state belongs to the state set
WellFormedNfa(n) ==
    /\ n.start_state \in n.states
    /\ n.accept_states \subseteq n.states
    /\ \A key \in DOMAIN n.transitions : key[1] \in n.states /\ n.transitions[key] \subseteq n.states

\* build_example_nfa without the transition (1, 'b') -> [2]
build_example_nfa_no_last_edge ==
    LET transitions == Put(Put(EmptyDict, <<0, "a">>, {0, 1}), <<0, "b">>, {0})
    IN  [states |-> {0, 1, 2}, alphabet |-> <<"a", "b">>, start_state |-> 0,
         accept_states |-> {2}, transitions |-> transitions]

\* lines 234-255: the example NFA.  The lists of states are held as sets: the
\* code only tests membership in them and iterates over them
build_example_nfa ==
    LET states == {0, 1, 2}
        alphabet == <<"a", "b">>
        start_state == 0
        accept_states == {2}
        transitions == Put(Put(Put(EmptyDict, <<0, "a">>, {0, 1}), <<0, "b">>, {0}), <<1, "b">>, {2})
    IN  [states |-> states, alphabet |-> alphabet, start_state |-> start_state,
         accept_states |-> accept_states, transitions |-> transitions]

-----------------------------------------------------------------------------
(* nfa_to_dfa *)

NoDfa == [states |-> <<>>, alphabet |-> <<>>, start_state |-> 0,
          accept_states |-> <<>>, transitions |-> EmptyDict]

\* sorted(list(S)) for a set of integers
RECURSIVE Sorted(_)
Sorted(S) ==
    IF S = {} THEN <<>>
    ELSE LET m == CHOOSE x \in S : \A y \in S : x <= y
         IN  <<m>> \o Sorted(S \ {m})

\* list(range(n))
ListRange(n) == [i \in 1..n |-> i - 1]

\* lines 75-78: the values target_closure can take
TargetClosures(n, move_set) ==
    IF move_set # {} THEN epsilon_closure(n, move_set) ELSE {{}}

\* NewIndex counting from one
NewIndex_from_one(subs) == Len(subs) + 1

\* NewIndex giving the index of the last subset of the list once more
NewIndex_last(subs) == Len(subs) - 1

\* line 82: the index given to a subset seen for the first time
NewIndex(subs) == Len(subs)

\* ContainsAccept asking every member to be an accept state
ContainsAccept_all(subset, accept_states_nfa) ==
    \A s \in subset : s \in accept_states_nfa

\* lines 89-92: the subset contains an NFA accept state
ContainsAccept(subset, accept_states_nfa) ==
    \E s \in subset : s \in accept_states_nfa

NoTm == [num_states |-> 0, start_state |-> 0, blank |-> "_", transitions |-> EmptyDict,
         accept_states |-> <<>>, reject_states |-> <<>>]

NoCfg == [nonterminals |-> <<>>, terminals |-> <<>>, start_symbol |-> "", productions |-> EmptyDict]

\* The state before any call: no locals, nothing returned
NoCall ==
    /\ subset_to_index = EmptyDict
    /\ subsets = <<>>
    /\ dfa_transitions = EmptyDict
    /\ dfa_accept_states = {}
    /\ index = 0
    /\ sym = 1
    /\ input_string = <<>>
    /\ max_steps = <<>>
    /\ tape = <<>>
    /\ head = 0
    /\ state = 0
    /\ steps = 0
    /\ configurations = <<>>
    /\ returned = <<>>

\* epsilon_closure is not running on its own
NoClosureCall ==
    /\ ec_state_set = {}
    /\ ec_closure = {}
    /\ ec_stack = <<>>
    /\ first_closure = <<>>

\* The caller runs one call at a time
NoOtherCall ==
    /\ suspended = <<>>
    /\ alone = <<>>

\* The programs for grammars and machine descriptions are not running
NoToolCall ==
    /\ NoClosureCall
    /\ NoOtherCall
    /\ cfg = NoCfg
    /\ generating = {}
    /\ changed = FALSE
    /\ num_states = 0
    /\ combo = <<>>
    /\ main_result = <<>>
    /\ raised = <<>>

\* A caller holds an NFA description and is about to call nfa_to_dfa.  The code
\* never reads nfa['states'] and uses state identifiers only as dictionary keys
\* and set members, so renaming the states of an NFA renames nothing in the
\* DFA: the start state of a well-formed NFA is taken to be state 0.  The
\* malformed NFAs have a start state outside the state set.
Init ==
    /\ \/ \E F \in SUBSET NfaStates, E \in EdgeSets(NfaAlphabet, MaxEdges) :
             nfa = MakeNfa(NfaAlphabet, 0, F, E)
       \/ \E F \in SUBSET NfaStates, E \in EdgeSets(NfaAlphabet, 1) :
             nfa = MakeNfa(NfaAlphabet, OutsideState, F, E)
    /\ pc = "nfa_to_dfa"
    /\ dfa = NoDfa
    /\ first_dfa = NoDfa
    /\ tm = NoTm
    /\ NoCall
    /\ NoToolCall

\* lines 48-67: the start subset gets index 0
NfaToDfaBegin ==
    /\ pc = "nfa_to_dfa"
    /\ \E start_closure \in epsilon_closure(nfa, {nfa.start_state}) :
          /\ subset_to_index' = Put(EmptyDict, start_closure, 0)
          /\ subsets' = <<start_closure>>
    /\ dfa_transitions' = EmptyDict
    /\ dfa_accept_states' = {}
    /\ index' = 0
    /\ sym' = 1
    /\ pc' = "subset_loop"
    /\ UNCHANGED <<nfa, dfa, first_dfa, tm, simVars, toolVars>>

\* ForSymbol taking every target subset for a new one
ForSymbol_never_known ==
    /\ pc = "subset_loop"
    /\ index < Len(subsets)
    /\ sym <= Len(nfa.alphabet)
    /\ LET subset == subsets[index + 1]
           current_index == index
           symbol == nfa.alphabet[sym]
       IN  \E move_set \in move_nfa(nfa, subset, symbol) :
           \E target_closure \in TargetClosures(nfa, move_set) :
              LET new_index == NewIndex(subsets)
              IN  /\ subset_to_index' = Put(subset_to_index, target_closure, new_index)
                  /\ subsets' = Append(subsets, target_closure)
                  /\ dfa_transitions' = Put(dfa_transitions, <<current_index, symbol>>, new_index)
    /\ sym' = sym + 1
    /\ UNCHANGED <<nfa, pc, dfa_accept_states, index, dfa, first_dfa, tm, simVars, toolVars>>

\* lines 73-86: one iteration of the for loop over the alphabet
ForSymbol ==
    /\ pc = "subset_loop"
    /\ index < Len(subsets)
    /\ sym <= Len(nfa.alphabet)
    /\ LET subset == subsets[index + 1]
           current_index == index
           symbol == nfa.alphabet[sym]
       IN  \E move_set \in move_nfa(nfa, subset, symbol) :
           \E target_closure \in TargetClosures(nfa, move_set) :
              LET known == target_closure \in DOMAIN subset_to_index
                  new_index == NewIndex(subsets)
                  s2i == IF known THEN subset_to_index
                         ELSE Put(subset_to_index, target_closure, new_index)
              IN  /\ subset_to_index' = s2i
                  /\ subsets' = IF known THEN subsets ELSE Append(subsets, target_closure)
                  /\ dfa_transitions' = Put(dfa_transitions, <<current_index, symbol>>, s2i[target_closure])
    /\ sym' = sym + 1
    /\ UNCHANGED <<nfa, pc, dfa_accept_states, index, dfa, first_dfa, tm, simVars, toolVars>>

\* lines 88-94: mark the subset accepting, go to the next index
MarkAccept ==
    /\ pc = "subset_loop"
    /\ index < Len(subsets)
    /\ sym > Len(nfa.alphabet)
    /\ LET subset == subsets[index + 1]
           accept_states_nfa == nfa.accept_states
       IN  dfa_accept_states' =
              IF ContainsAccept(subset, accept_states_nfa)
              THEN dfa_accept_states \cup {index}
              ELSE dfa_accept_states
    /\ index' = index + 1
    /\ sym' = 1
    /\ UNCHANGED <<nfa, pc, subset_to_index, subsets, dfa_transitions, dfa, first_dfa, tm, simVars, toolVars>>

\* lines 68, 96-106: the while loop ends, the DFA is returned
NfaToDfaReturn ==
    /\ pc = "subset_loop"
    /\ ~(index < Len(subsets))
    /\ dfa' = [states |-> ListRange(Len(subsets)),
               alphabet |-> nfa.alphabet,
               start_state |-> 0,
               accept_states |-> Sorted(dfa_accept_states),
               transitions |-> dfa_transitions]
    /\ pc' = "dfa_to_tm_decider"
    /\ UNCHANGED <<nfa, detVars, first_dfa, tm, simVars, toolVars>>

-----------------------------------------------------------------------------
(* dfa_to_tm_decider *)

\* lines 116-118: the two states reserved for accept and reject
TmAcceptState(d) == Len(d.states)

\* TmRejectState sharing the state of TmAcceptState
TmRejectState_shared(d) == Len(d.states)

TmRejectState(d) == Len(d.states) + 1

\* TmOnSymbol sending a missing DFA transition to the accept state
TmOnSymbol_missing_accepts(d, st, symbol) ==
    LET key == <<st, symbol>>
        nxt_st == IF symbol \in Range(d.alphabet) /\ key \in DOMAIN d.transitions
                  THEN d.transitions[key]
                  ELSE Len(d.states)
    IN  <<nxt_st, symbol, "R">>

\* TmOnSymbol writing a blank over the symbol it reads
TmOnSymbol_erasing(d, st, symbol) ==
    LET key == <<st, symbol>>
        nxt_st == IF symbol \in Range(d.alphabet) /\ key \in DOMAIN d.transitions
                  THEN d.transitions[key]
                  ELSE Len(d.states) + 1
    IN  <<nxt_st, "_", "R">>

\* lines 124-136: the rule for a DFA state and a symbol of INPUT_ALPHABET
TmOnSymbol(d, st, symbol) ==
    LET key == <<st, symbol>>
        nxt_st == IF symbol \in Range(d.alphabet)
                  THEN IF key \in DOMAIN d.transitions
                       THEN d.transitions[key]
                       ELSE TmRejectState(d)
                  ELSE TmRejectState(d)
        tape_char == symbol
        direction == "R"
    IN  <<nxt_st, tape_char, direction>>

\* TmOnBlank leaving a non-accepting state where it is
TmOnBlank_stay(d, st) ==
    <<IF st \in Range(d.accept_states) THEN Len(d.states) ELSE st, "_", "R">>

\* lines 138-146: the rule for a DFA state and the blank
TmOnBlank(d, st) ==
    LET dfa_accept_states_ == Range(d.accept_states)
        tape_char_blank == "_"
        nxt_st_blank == IF st \in dfa_accept_states_ THEN TmAcceptState(d) ELSE TmRejectState(d)
        direction_blank == "R"
    IN  <<nxt_st_blank, tape_char_blank, direction_blank>>

\* DeciderKeys without the blank
DeciderKeys_no_blank(d) == Range(d.states) \X Range(INPUT_ALPHABET)

\* lines 123-124, 139: the keys tm_transitions is given
DeciderKeys(d) == Range(d.states) \X (Range(INPUT_ALPHABET) \cup {"_"})

\* lines 108-159
dfa_to_tm_decider(d) ==
    LET dfa_states == d.states
        dfa_start == d.start_state
        num_dfa_states == Len(dfa_states)
        tm_transitions ==
            [key \in DeciderKeys(d) |->
                IF key[2] = "_" THEN TmOnBlank(d, key[1]) ELSE TmOnSymbol(d, key[1], key[2])]
        tm_states == ListRange(num_dfa_states + 2)
    IN  [num_states |-> Len(tm_states),
         start_state |-> dfa_start,
         blank |-> "_",
         transitions |-> tm_transitions,
         accept_states |-> <<TmAcceptState(d)>>,
         reject_states |-> <<TmRejectState(d)>>]

\* the call tm = dfa_to_tm_decider(dfa)
DfaToTmDecider ==
    /\ pc = "dfa_to_tm_decider"
    /\ tm' = dfa_to_tm_decider(dfa)
    /\ pc' = "simulate_tm"
    /\ UNCHANGED <<nfa, detVars, dfa, first_dfa, simVars, toolVars>>

-----------------------------------------------------------------------------
(* simulate_tm *)

\* ''.join(tape)
RECURSIVE Join(_)
Join(t) == IF t = <<>> THEN "" ELSE Head(t) \o Join(Tail(t))

\* lines 161-176
format_configuration(st, tp, head_position) ==
    "state=" \o ToString(st) \o ", tape=" \o Join(tp) \o ", head pos=" \o ToString(head_position)

\* lines 178-192: the call simulate_tm(tm, input, budget)
SimulateBegin(Inputs, Budgets) ==
    /\ pc = "simulate_tm"
    /\ \E inp \in Inputs, budget \in Budgets :
          /\ input_string' = inp
          /\ max_steps' = budget
          /\ tape' = Append(inp, tm.blank)
    /\ head' = 0
    /\ state' = tm.start_state
    /\ configurations' = <<>>
    /\ steps' = 0
    /\ returned' = <<>>
    /\ pc' = "simulate_loop"
    /\ UNCHANGED <<nfa, detVars, dfa, first_dfa, tm, toolVars>>

\* BudgetExhausted comparing with > in place of >=
BudgetExhausted_late(budget, done) ==
    budget # <<>> /\ done > budget[1]

\* line 205: a step limit was given and is used up
BudgetExhausted(budget, done) ==
    budget # <<>> /\ done >= budget[1]

\* OnLookupGap returning no trace
OnLookupGap_no_trace(recorded) == <<0, <<>>>>

\* line 219: the value returned when (state, symbol) has no rule
OnLookupGap(recorded) == <<0, recorded>>

\* Record replacing the trace by the current configuration alone
Record_only_last(confs, st, tp, h) == <<format_configuration(st, tp, h)>>

\* line 196: the current configuration is appended to the trace
Record(confs, st, tp, h) == Append(confs, format_configuration(st, tp, h))

\* ExtendTape without lines 209-210: no cell is inserted at the left end
ExtendTape_no_insert(tp, h, blank) ==
    IF h >= Len(tp) THEN Append(tp, blank) ELSE tp

\* lines 209-213: the tape the cell under the head is read from
ExtendTape(tp, h, blank) ==
    LET tape1 == IF h < 0 THEN <<blank>> \o tp ELSE tp
        head1 == IF h < 0 THEN 0 ELSE h
    IN  IF head1 >= Len(tape1) THEN Append(tape1, blank) ELSE tape1

\* lines 194-232: one iteration of the while loop
SimulateStep ==
    /\ pc = "simulate_loop"
    /\ LET accept_states == Range(tm.accept_states)
           reject_states == Range(tm.reject_states)
           recorded == Record(configurations, state, tape, head)
           \* line 211
           head1 == IF head < 0 THEN 0 ELSE head
           tape2 == ExtendTape(tape, head, tm.blank)
           current_symbol == tape2[head1 + 1]
           key == <<state, current_symbol>>
           Return(verdict) ==
               /\ returned' = <<verdict, recorded>>
               /\ pc' = "simulate_returned"
               /\ UNCHANGED <<tape, head, state, steps>>
       IN  /\ configurations' = recorded
           /\ IF state \in accept_states THEN Return(1)
              ELSE IF state \in reject_states THEN Return(0)
              ELSE IF BudgetExhausted(max_steps, steps) THEN Return(0)
              ELSE IF key \notin DOMAIN tm.transitions
                   THEN /\ returned' = OnLookupGap(recorded)
                        /\ pc' = "simulate_returned"
                        /\ tape' = tape2
                        /\ head' = head1
                        /\ UNCHANGED <<state, steps>>
              ELSE LET rule == tm.transitions[key]
                       nxt_st == rule[1]
                       tape_char == rule[2]
                       direction == rule[3]
                   IN  /\ steps < MaxSteps
                       /\ tape' = [tape2 EXCEPT ![head1 + 1] = tape_char]
                       /\ head' = IF direction = "R" THEN head1 + 1 ELSE head1 - 1
                       /\ state' = nxt_st
                       /\ steps' = steps + 1
                       /\ UNCHANGED <<pc, returned>>
    /\ UNCHANGED <<nfa, detVars, dfa, first_dfa, tm, input_string, max_steps, toolVars>>

-----------------------------------------------------------------------------
(* A caller that calls nfa_to_dfa on an NFA *)

Next ==
    \/ NfaToDfaBegin
    \/ ForSymbol
    \/ MarkAccept
    \/ NfaToDfaReturn

Spec == Init /\ [][Next]_vars

-----------------------------------------------------------------------------
(* The pipeline of main: nfa_to_dfa, dfa_to_tm_decider, simulate_tm *)

NextPipeline ==
    \/ NfaToDfaBegin
    \/ ForSymbol
    \/ MarkAccept
    \/ NfaToDfaReturn
    \/ DfaToTmDecider
    \/ SimulateBegin(StringsUpTo(Range(INPUT_ALPHABET), MaxLen), {<<>>})
    \/ SimulateStep

SpecPipeline == Init /\ [][NextPipeline]_vars

-----------------------------------------------------------------------------
(* main on the example NFA, its input string being any string of at most      *)
(* MaxWord symbols                                                            *)

InitExample ==
    /\ nfa = build_example_nfa
    /\ pc = "nfa_to_dfa"
    /\ dfa = NoDfa
    /\ first_dfa = NoDfa
    /\ tm = NoTm
    /\ NoCall
    /\ NoToolCall

NextExample ==
    \/ NfaToDfaBegin
    \/ ForSymbol
    \/ MarkAccept
    \/ NfaToDfaReturn
    \/ DfaToTmDecider
    \/ SimulateBegin(StringsUpTo(Range(INPUT_ALPHABET), MaxWord), {<<>>})
    \/ SimulateStep

SpecExample == InitExample /\ [][NextExample]_vars

-----------------------------------------------------------------------------
(* A caller that calls nfa_to_dfa a second time on the same NFA *)

\* the caller keeps the first DFA and calls dfa = nfa_to_dfa(nfa) again
NfaToDfaAgain ==
    /\ pc = "dfa_to_tm_decider"
    /\ first_dfa = NoDfa
    /\ first_dfa' = dfa
    /\ pc' = "nfa_to_dfa"
    /\ UNCHANGED <<nfa, detVars, dfa, tm, simVars, toolVars>>

NextTwice ==
    \/ NfaToDfaBegin
    \/ ForSymbol
    \/ MarkAccept
    \/ NfaToDfaReturn
    \/ NfaToDfaAgain

SpecTwice == Init /\ [][NextTwice]_vars

-----------------------------------------------------------------------------
(* A caller that holds a DFA description of its own and builds and runs the   *)
(* decider for it                                                             *)

NoNfa == [states |-> {}, alphabet |-> <<>>, start_state |-> 0,
          accept_states |-> {}, transitions |-> EmptyDict]

\* the alphabets of a DFA: within INPUT_ALPHABET
DfaAlphabets == { <<"a", "b">>, <<"a">> }

\* A DFA description with states 0..N-1 whose start state is its first or its
\* last state; a transition may be missing
InitDfa ==
    /\ nfa = NoNfa
    /\ pc = "dfa_to_tm_decider"
    /\ \E N \in 1 .. MaxDfaStates, alphabet \in DfaAlphabets :
       \E s \in {0, N - 1}, F \in SUBSET (0 .. (N - 1)) :
       \E D \in SUBSET ((0 .. (N - 1)) \X Range(alphabet)) :
       \E delta \in [D -> 0 .. (N - 1)] :
          dfa = [states |-> ListRange(N), alphabet |-> alphabet, start_state |-> s,
                 accept_states |-> Sorted(F), transitions |-> delta]
    /\ first_dfa = NoDfa
    /\ tm = NoTm
    /\ NoCall
    /\ NoToolCall

NextDfa ==
    \/ DfaToTmDecider
    \/ SimulateBegin(StringsUpTo(Range(INPUT_ALPHABET), MaxLen), {<<>>})
    \/ SimulateStep

SpecDfa == InitDfa /\ [][NextDfa]_vars

-----------------------------------------------------------------------------
(* A caller that holds a hand-built Turing machine and runs it, with or       *)
(* without a step budget                                                      *)

\* the rules a hand-built TM may hold: from a state that is no sink, on a tape
\* symbol, to any state, writing a tape symbol, moving left or right
TmKeys == (0 .. (NumTmStates - 1)) \X Range(TAPE_ALPHABET)
TmValues == (0 .. (NumTmStates + 1)) \X Range(TAPE_ALPHABET) \X Range(MOVES)

InitTm ==
    /\ nfa = NoNfa
    /\ dfa = NoDfa
    /\ first_dfa = NoDfa
    /\ pc = "simulate_tm"
    /\ \E D \in { K \in SUBSET TmKeys : Cardinality(K) <= MaxRules } :
       \E rules \in [D -> TmValues] :
             tm = [num_states |-> NumTmStates + 2,
                   start_state |-> 0,
                   blank |-> "_",
                   transitions |-> rules,
                   accept_states |-> <<NumTmStates>>,
                   reject_states |-> <<NumTmStates + 1>>]
    /\ NoCall
    /\ NoToolCall

Budgets == {<<>>} \cup { <<k>> : k \in 0 .. MaxBudget }

NextTm ==
    \/ SimulateBegin(StringsUpTo(Range(INPUT_ALPHABET), MaxLen), Budgets)
    \/ SimulateStep

SpecTm == InitTm /\ [][NextTm]_vars

-----------------------------------------------------------------------------
(* A caller that calls epsilon_closure on a set of states, and a second time  *)
(* on the set the first call returned.  The worklist loop is followed one     *)
(* iteration at a time.                                                       *)

\* lines 14-17
ClosureBegin ==
    /\ pc = "epsilon_closure"
    /\ ec_closure' = ec_state_set
    /\ ec_stack' \in Orders(ec_state_set)
    /\ pc' = "closure_loop"
    /\ UNCHANGED <<nfa, detVars, dfa, first_dfa, callerVars, tm, simVars, cfgVars, genVars, main_result, raised,
                   ec_state_set, first_closure>>

\* lines 19-29: one iteration of the while loop
ClosurePop ==
    /\ pc = "closure_loop"
    /\ ec_stack # <<>>
    /\ LET popped == ec_stack[Len(ec_stack)]
           rest   == SubSeq(ec_stack, 1, Len(ec_stack) - 1)
           key    == <<popped, EPS>>
       IN  IF key \in DOMAIN nfa.transitions
           THEN \E order \in Orders(nfa.transitions[key]) :
                   LET r == ClosureAddAll(ec_closure, rest, order)
                   IN  ec_closure' = r.closure /\ ec_stack' = r.stack
           ELSE ec_closure' = ec_closure /\ ec_stack' = rest
    /\ UNCHANGED <<nfa, pc, detVars, dfa, first_dfa, callerVars, tm, simVars, cfgVars, genVars, main_result, raised,
                   ec_state_set, first_closure>>

\* lines 19, 31: the stack is empty, the closure is returned
ClosureReturn ==
    /\ pc = "closure_loop"
    /\ ec_stack = <<>>
    /\ pc' = "closure_returned"
    /\ UNCHANGED <<nfa, detVars, dfa, first_dfa, callerVars, tm, simVars, cfgVars, genVars, main_result, raised,
                   closureVars>>

\* the caller keeps the returned set and calls epsilon_closure on it
ClosureAgain ==
    /\ pc = "closure_returned"
    /\ first_closure = <<>>
    /\ first_closure' = <<ec_closure>>
    /\ ec_state_set' = ec_closure
    /\ pc' = "epsilon_closure"
    /\ UNCHANGED <<nfa, detVars, dfa, first_dfa, callerVars, tm, simVars, cfgVars, genVars, main_result, raised,
                   ec_closure, ec_stack>>

\* An NFA over the states 0, 1, 2 with any set of epsilon moves, and any set
\* of its states; epsilon_closure reads no other part of the NFA
InitClosure ==
    /\ \E E \in SUBSET (NfaStates \X {EPS} \X NfaStates) :
          nfa = MakeNfa(NfaAlphabet, 0, {}, E)
    /\ pc = "epsilon_closure"
    /\ dfa = NoDfa
    /\ first_dfa = NoDfa
    /\ tm = NoTm
    /\ NoCall
    /\ cfg = NoCfg
    /\ generating = {}
    /\ changed = FALSE
    /\ num_states = 0
    /\ combo = <<>>
    /\ main_result = <<>>
    /\ raised = <<>>
    /\ ec_state_set \in SUBSET NfaStates
    /\ ec_closure = {}
    /\ ec_stack = <<>>
    /\ first_closure = <<>>
    /\ NoOtherCall

NextClosure ==
    \/ ClosureBegin
    \/ ClosurePop
    \/ ClosureReturn
    \/ ClosureAgain

SpecClosure == InitClosure /\ [][NextClosure]_vars

-----------------------------------------------------------------------------
(* CFG_Recog_Empty_Lang.py: compute_generating_nonterminals and               *)
(* cfg_language_is_empty                                                      *)

EPSILON == "eps"

\* AllSymbolsGood looking at the first symbol of the right side only
AllSymbolsGood_first_only(right_side, nonterminals, gen) ==
    right_side = <<>> \/ (right_side[1] \in Range(nonterminals) => right_side[1] \in gen)

\* lines 40-45: every nonterminal of the right side is known to be generating
AllSymbolsGood(right_side, nonterminals, gen) ==
    \A i \in 1 .. Len(right_side) :
        right_side[i] \in Range(nonterminals) => right_side[i] \in gen

\* lines 34 and 48: the right side makes its nonterminal generating
RightSideGenerates(right_side, nonterminals, gen) ==
    \/ Len(right_side) = 1 /\ right_side[1] = EPSILON
    \/ AllSymbolsGood(right_side, nonterminals, gen)

\* lines 22-51: the for loop over the nonterminals from position i on; each
\* nonterminal is tested against the set as the earlier ones left it
RECURSIVE ForNonTerm(_, _, _, _)
ForNonTerm(c, gen, chg, i) ==
    IF i > Len(c.nonterminals) THEN [generating |-> gen, changed |-> chg]
    ELSE LET non_term == c.nonterminals[i] IN
         IF non_term \in gen THEN ForNonTerm(c, gen, chg, i + 1)
         ELSE IF non_term \notin DOMAIN c.productions THEN ForNonTerm(c, gen, chg, i + 1)
         ELSE LET right_side_list == c.productions[non_term] IN
              IF \E k \in 1 .. Len(right_side_list) :
                    RightSideGenerates(right_side_list[k], c.nonterminals, gen)
              THEN ForNonTerm(c, gen \cup {non_term}, TRUE, i + 1)
              ELSE ForNonTerm(c, gen, chg, i + 1)

\* lines 57, 14-17: cfg_language_is_empty calls compute_generating_nonterminals
ComputeGeneratingBegin ==
    /\ pc = "cfg_language_is_empty"
    /\ generating' = {}
    /\ changed' = TRUE
    /\ pc' = "compute_generating"
    /\ UNCHANGED <<nfa, detVars, dfa, first_dfa, callerVars, tm, simVars, cfg, genVars, main_result, raised, closureVars>>

\* lines 20-51: one iteration of the while loop
GeneratingPass ==
    /\ pc = "compute_generating"
    /\ changed
    /\ LET r == ForNonTerm(cfg, generating, FALSE, 1)
       IN  /\ generating' = r.generating
           /\ changed' = r.changed
    /\ UNCHANGED <<nfa, pc, detVars, dfa, first_dfa, callerVars, tm, simVars, cfg, genVars, main_result, raised, closureVars>>

\* lines 53, 58-65: the loop ends, cfg_language_is_empty returns its verdict
CfgLanguageIsEmptyReturn ==
    /\ pc = "compute_generating"
    /\ ~changed
    /\ LET start_symbol == cfg.start_symbol
       IN  main_result' = IF start_symbol \in generating THEN <<0>> ELSE <<1>>
    /\ pc' = "cfg_returned"
    /\ UNCHANGED <<nfa, detVars, dfa, first_dfa, callerVars, tm, simVars, cfgVars, genVars, raised, closureVars>>

\* the nonterminals and the terminals of the grammars the program builds
CfgNonterminals == <<"S", "A">>
CfgTerminals == <<"a", "b">>

\* The right sides of productions: the lone epsilon marker, or at most MaxRhs
\* nonterminals and terminals.  The code treats every symbol that is no
\* nonterminal alike, so one terminal stands for all
RightSides ==
    {<<EPSILON>>} \cup StringsUpTo(Range(CfgNonterminals) \cup {CfgTerminals[1]}, MaxRhs)

\* the productions dictionary holding the list of productions prods
ProductionsOf(prods) ==
    [non_term \in { prods[i][1] : i \in DOMAIN prods } |->
        LET own == SelectSeq(prods, LAMBDA e : e[1] = non_term)
        IN  [k \in 1 .. Len(own) |-> own[k][2]]]

\* A caller holds a grammar of at most MaxProductions productions, any
\* nonterminal being its start symbol, and is about to call cfg_language_is_empty
InitCfg ==
    /\ nfa = NoNfa
    /\ dfa = NoDfa
    /\ first_dfa = NoDfa
    /\ tm = NoTm
    /\ pc = "cfg_language_is_empty"
    /\ NoCall
    /\ \E k \in 0 .. MaxProductions :
       \E prods \in [1 .. k -> Range(CfgNonterminals) \X RightSides] :
       \E start_symbol \in Range(CfgNonterminals) :
          cfg = [nonterminals |-> CfgNonterminals, terminals |-> CfgTerminals,
                 start_symbol |-> start_symbol, productions |-> ProductionsOf(prods)]
    /\ generating = {}
    /\ changed = FALSE
    /\ num_states = 0
    /\ combo = <<>>
    /\ main_result = <<>>
    /\ raised = <<>>
    /\ NoClosureCall
    /\ NoOtherCall

NextCfg ==
    \/ ComputeGeneratingBegin
    \/ GeneratingPass
    \/ CfgLanguageIsEmptyReturn

SpecCfg == InitCfg /\ [][NextCfg]_vars

-----------------------------------------------------------------------------
(* ValidateTM.py: enumerate_tms, make_invalid_missing_transition,             *)
(* make_invalid_blank_symbol and validate_tm; EnumerateTM.py: enumerate_tms   *)

HALT == "HALT"

\* the outcome of a call: a returned value or a raised exception
Returns(v) == [main_result |-> <<v>>, raised |-> <<>>]
Raises(e) == [main_result |-> <<>>, raised |-> <<e>>]

\* SeqProduct(A, B): the pairs of a member of A and a member of B, A varying slowest
SeqProduct(A, B) ==
    [i \in 1 .. (Len(A) * Len(B)) |-> <<A[((i - 1) \div Len(B)) + 1], B[((i - 1) % Len(B)) + 1]>>]

\* ValidateTM.py lines 15-21, EnumerateTM.py lines 15-25
build_trans_table(states) == SeqProduct(states, TAPE_ALPHABET)

\* ValidateTM.py lines 23-30, EnumerateTM.py lines 27-38
establish_rules(valid_next_states) ==
    LET inner == SeqProduct(TAPE_ALPHABET, MOVES)
        outer == SeqProduct(valid_next_states, inner)
    IN  [i \in 1 .. Len(outer) |-> <<outer[i][1], outer[i][2][1], outer[i][2][2]>>]

\* lines 36-37: states + ['HALT']
ValidNextStates(n) == Append(ListRange(n), HALT)

\* the first tuple of product(rules, repeat=k): the first rule k times
FirstCombo(k) == [i \in 1 .. k |-> 1]

\* the last tuple of product(rules, repeat=k), r being len(rules)
IsLastCombo(c, r) == \A i \in 1 .. Len(c) : c[i] = r

\* the tuple of product(rules, repeat=k) after c: the last position varies fastest
RECURSIVE NextCombo(_, _)
NextCombo(c, r) ==
    IF c = <<>> THEN <<>>
    ELSE IF c[Len(c)] < r
         THEN [c EXCEPT ![Len(c)] = c[Len(c)] + 1]
         ELSE Append(NextCombo(SubSeq(c, 1, Len(c) - 1), r), 1)

\* ValidateTM.py lines 43-55: the machine built from one tuple of rules
MachineOf(n, c) ==
    LET states == ListRange(n)
        trans_table == build_trans_table(states)
        rules == establish_rules(ValidNextStates(n))
        transitions == [pos \in Range(trans_table) |->
                          rules[c[CHOOSE i \in 1 .. Len(trans_table) : trans_table[i] = pos]]]
    IN  [num_states |-> n, start_state |-> 0, blank |-> "_", transitions |-> transitions]

\* the number of machines enumerate_tms yields with n states
MachinesWith(n) == (6 * (n + 1)) ^ (3 * n)

RECURSIVE MachinesBefore(_)
MachinesBefore(n) == IF n <= 1 THEN 0 ELSE MachinesBefore(n - 1) + MachinesWith(n - 1)

RECURSIVE ComboOrdinal(_, _)
ComboOrdinal(c, r) ==
    IF c = <<>> THEN 0
    ELSE ComboOrdinal(SubSeq(c, 1, Len(c) - 1), r) * r + (c[Len(c)] - 1)

\* the number of machines the generator has yielded so far
Yielded(n, c) ==
    IF n = 0 THEN 0 ELSE MachinesBefore(n) + ComboOrdinal(c, 6 * (n + 1)) + 1

\* ValidateTM.py lines 32-58: next(tm_generator), the generator running up to
\* its next yield
ValidateTM_enumerate_tms_next ==
    /\ pc = "ValidateTM.main"
    /\ Yielded(num_states, combo) < MaxMachines
    /\ LET r == Len(establish_rules(ValidNextStates(num_states)))
           n == IF num_states = 0 THEN 1
                ELSE IF IsLastCombo(combo, r) THEN num_states + 1
                ELSE num_states
           c == IF n # num_states THEN FirstCombo(Len(build_trans_table(ListRange(n))))
                ELSE NextCombo(combo, r)
       IN  /\ num_states' = n
           /\ combo' = c
           /\ tm' = MachineOf(n, c)
    /\ UNCHANGED <<nfa, pc, detVars, dfa, first_dfa, callerVars, simVars, cfgVars, main_result, raised, closureVars>>

\* ValidateTM.py lines 147-163; keys[0] is the key inserted first, (0, 'a')
make_invalid_missing_transition(m) ==
    LET invalid_transitions ==
            IF DOMAIN m.transitions # {}
            THEN LET first_key == build_trans_table(ListRange(m.num_states))[1]
                 IN  [key \in DOMAIN m.transitions \ {first_key} |-> m.transitions[key]]
            ELSE m.transitions
    IN  [num_states |-> m.num_states, start_state |-> m.start_state, blank |-> m.blank,
         transitions |-> invalid_transitions]

\* ValidateTM.py lines 165-174
make_invalid_blank_symbol(m) ==
    [num_states |-> m.num_states, start_state |-> m.start_state, blank |-> "x",
     transitions |-> m.transitions]

\* main lines 194-195: the caller replaces the machine by an invalid copy
MakeInvalid ==
    /\ pc = "ValidateTM.main"
    /\ num_states > 0
    /\ \/ tm' = make_invalid_missing_transition(tm)
       \/ tm' = make_invalid_blank_symbol(tm)
    /\ pc' = "ValidateTM.invalid"
    /\ UNCHANGED <<nfa, detVars, dfa, first_dfa, callerVars, simVars, cfgVars, genVars, main_result, raised, closureVars>>

\* ValidateTM.py lines 129-143: the loop over the transition values.  Line 136
\* reads the name vaue, which is bound nowhere: the first iteration that
\* reaches it raises NameError
ValidateValues(transitions) ==
    IF DOMAIN transitions = {} THEN Returns(1) ELSE Raises("NameError")

\* ValidateTM.py lines 76-145.  The machines given are dictionaries whose
\* num_states is an int, whose transitions is a dict, whose keys are pairs
\* and whose values are triples
validate_tm(m) ==
    IF "num_states" \notin DOMAIN m THEN Returns(0)
    ELSE IF "start_state" \notin DOMAIN m THEN Returns(0)
    ELSE IF "blank" \notin DOMAIN m THEN Returns(0)
    ELSE IF "transitions" \notin DOMAIN m THEN Returns(0)
    ELSE LET states == ListRange(m.num_states)
             transitions == m.transitions
         IN  IF m.num_states <= 0 THEN Returns(0)
             ELSE IF m.start_state \notin Range(states) THEN Returns(0)
             ELSE IF m.blank \notin Range(TAPE_ALPHABET) THEN Returns(0)
             ELSE IF \E key \in DOMAIN transitions :
                        key[1] \notin Range(states) \/ key[2] \notin Range(TAPE_ALPHABET)
                  THEN Returns(0)
             ELSE IF \E s \in Range(states), x \in Range(TAPE_ALPHABET) :
                        <<s, x>> \notin DOMAIN transitions
                  THEN Returns(0)
             ELSE ValidateValues(transitions)

\* main line 207: result = validate_tm(machine)
ValidateTm ==
    /\ pc \in {"ValidateTM.main", "ValidateTM.invalid"}
    /\ num_states > 0
    /\ main_result' = validate_tm(tm).main_result
    /\ raised' = validate_tm(tm).raised
    /\ pc' = "ValidateTM.validated"
    /\ UNCHANGED <<nfa, detVars, dfa, first_dfa, callerVars, tm, simVars, cfgVars, genVars, closureVars>>

\* EnumerateTM.py lines 64-68: the loop that fills transitions.  Line 67 binds
\* tape_Char and line 68 reads tape_char, which is bound nowhere: the first
\* iteration raises NameError
EnumerateTM_transitions(trans_table, c) ==
    IF trans_table = <<>> THEN Returns(EmptyDict) ELSE Raises("NameError")

\* EnumerateTM.py lines 40-78: the first next(tm_generator)
EnumerateTM_enumerate_tms_next ==
    /\ pc = "EnumerateTM.main"
    /\ num_states = 0
    /\ LET n == 1
           states == ListRange(n)
           trans_table == build_trans_table(states)
           c == FirstCombo(Len(trans_table))
           filled == EnumerateTM_transitions(trans_table, c)
       IN  /\ num_states' = n
           /\ combo' = c
           /\ raised' = filled.raised
           /\ tm' = IF filled.raised = <<>>
                    THEN [num_states |-> n, start_state |-> 0, blank |-> "_",
                          transitions |-> filled.main_result[1]]
                    ELSE tm
    /\ pc' = "EnumerateTM.next_done"
    /\ UNCHANGED <<nfa, detVars, dfa, first_dfa, callerVars, simVars, cfgVars, main_result, closureVars>>

\* main of ValidateTM.py or of EnumerateTM.py starts
InitMachines ==
    /\ nfa = NoNfa
    /\ dfa = NoDfa
    /\ first_dfa = NoDfa
    /\ tm = NoTm
    /\ pc \in {"ValidateTM.main", "EnumerateTM.main"}
    /\ NoCall
    /\ NoToolCall

NextMachines ==
    \/ ValidateTM_enumerate_tms_next
    \/ MakeInvalid
    \/ ValidateTm
    \/ EnumerateTM_enumerate_tms_next

SpecMachines == InitMachines /\ [][NextMachines]_vars

-----------------------------------------------------------------------------
(* A caller that holds one NFA, one DFA or one TM and runs two calls of the    *)
(* function that takes it, switching from one call to the other between any   *)
(* two steps, and that then runs a returned call once more on its own.  The   *)
(* value the caller holds is the one object both calls are given; the locals  *)
(* of a call and the value it returns belong to its frame.                    *)

\* the function that takes the value the caller holds
Callee ==
    IF nfa # NoNfa THEN "nfa_to_dfa"
    ELSE IF dfa # NoDfa THEN "dfa_to_tm_decider"
    ELSE "simulate_tm"

\* the position of the caller after the return of the call
ReturnPc ==
    IF Callee = "nfa_to_dfa" THEN "dfa_to_tm_decider"
    ELSE IF Callee = "dfa_to_tm_decider" THEN "simulate_tm"
    ELSE "simulate_returned"

\* the value the call returns: lines 106, 159, and 200 to 219
CallResult ==
    IF Callee = "nfa_to_dfa" THEN dfa
    ELSE IF Callee = "dfa_to_tm_decider" THEN tm
    ELSE returned

\* the frame of the running call: its position, its arguments besides the
\* value both calls are given, its locals and its return value
Frame ==
    [pc |-> pc,
     subset_to_index |-> subset_to_index, subsets |-> subsets,
     dfa_transitions |-> dfa_transitions, dfa_accept_states |-> dfa_accept_states,
     index |-> index, sym |-> sym,
     input_string |-> input_string, max_steps |-> max_steps,
     tape |-> tape, head |-> head, state |-> state, steps |-> steps,
     configurations |-> configurations, returned |-> returned,
     result |-> CallResult]

\* Switch with one trace for both calls: the list of configurations is not
\* part of the frame
Switch_shared_trace ==
    /\ suspended # <<>>
    /\ alone = <<>>
    /\ suspended' = <<Frame>>
    /\ LET f == suspended[1]
       IN  /\ pc' = f.pc
           /\ subset_to_index' = f.subset_to_index
           /\ subsets' = f.subsets
           /\ dfa_transitions' = f.dfa_transitions
           /\ dfa_accept_states' = f.dfa_accept_states
           /\ index' = f.index
           /\ sym' = f.sym
           /\ input_string' = f.input_string
           /\ max_steps' = f.max_steps
           /\ tape' = f.tape
           /\ head' = f.head
           /\ state' = f.state
           /\ steps' = f.steps
           /\ configurations' = configurations
           /\ returned' = f.returned
           /\ dfa' = IF Callee = "nfa_to_dfa" THEN f.result ELSE dfa
           /\ tm' = IF Callee = "dfa_to_tm_decider" THEN f.result ELSE tm
    /\ UNCHANGED <<nfa, first_dfa, alone, cfgVars, genVars, closureVars, main_result, raised>>

\* the running call is suspended and the other call goes on where it was: every
\* name assigned in lines 48-106, 110-159 and 180-232 is a local of its call
Switch ==
    /\ suspended # <<>>
    /\ alone = <<>>
    /\ suspended' = <<Frame>>
    /\ LET f == suspended[1]
       IN  /\ pc' = f.pc
           /\ subset_to_index' = f.subset_to_index
           /\ subsets' = f.subsets
           /\ dfa_transitions' = f.dfa_transitions
           /\ dfa_accept_states' = f.dfa_accept_states
           /\ index' = f.index
           /\ sym' = f.sym
           /\ input_string' = f.input_string
           /\ max_steps' = f.max_steps
           /\ tape' = f.tape
           /\ head' = f.head
           /\ state' = f.state
           /\ steps' = f.steps
           /\ configurations' = f.configurations
           /\ returned' = f.returned
           /\ dfa' = IF Callee = "nfa_to_dfa" THEN f.result ELSE dfa
           /\ tm' = IF Callee = "dfa_to_tm_decider" THEN f.result ELSE tm
    /\ UNCHANGED <<nfa, first_dfa, alone, cfgVars, genVars, closureVars, main_result, raised>>

\* both calls have returned: the caller keeps the frame of one of them and
\* calls the function once more with the arguments of that call
CallAlone ==
    /\ suspended # <<>>
    /\ alone = <<>>
    /\ pc = ReturnPc
    /\ suspended[1].pc = ReturnPc
    /\ alone' = <<Frame>>
    /\ pc' = Callee
    /\ UNCHANGED <<nfa, detVars, dfa, first_dfa, tm, simVars, suspended,
                   cfgVars, genVars, closureVars, main_result, raised>>

\* the arguments of simulate_tm besides the TM: any, or those of the call run again
SharedInputs ==
    IF alone = <<>> THEN StringsUpTo(Range(INPUT_ALPHABET), MaxSharedLen)
    ELSE {alone[1].input_string}

SharedBudgets ==
    IF alone = <<>> THEN {<<>>, <<MaxBudget>>} ELSE {alone[1].max_steps}

\* a DFA description with states 0..N-1, start state 0 and every transition
TotalDfas ==
    UNION { { [states |-> ListRange(N), alphabet |-> INPUT_ALPHABET, start_state |-> 0,
               accept_states |-> Sorted(F), transitions |-> delta] :
                 F \in SUBSET (0 .. (N - 1)),
                 delta \in [(0 .. (N - 1)) \X Range(INPUT_ALPHABET) -> 0 .. (N - 1)] } :
            N \in 1 .. MaxDfaStates }

\* a hand-built TM of no rule or of one rule
OneRuleTms ==
    { [num_states |-> NumTmStates + 2, start_state |-> 0, blank |-> "_",
       transitions |-> rules,
       accept_states |-> <<NumTmStates>>, reject_states |-> <<NumTmStates + 1>>] :
         rules \in {EmptyDict} \cup { Put(EmptyDict, k, v) : k \in TmKeys, v \in TmValues } }

InitShared ==
    /\ \/ /\ \E F \in SUBSET NfaStates, E \in EdgeSets(NfaAlphabet, MaxSharedEdges) :
                nfa = MakeNfa(NfaAlphabet, 0, F, E)
          /\ dfa = NoDfa
          /\ tm = NoTm
       \/ /\ nfa = NoNfa
          /\ dfa \in TotalDfas
          /\ tm = NoTm
       \/ /\ nfa = NoNfa
          /\ dfa = NoDfa
          /\ tm \in OneRuleTms
    /\ pc = Callee
    /\ first_dfa = NoDfa
    /\ NoCall
    /\ NoClosureCall
    /\ cfg = NoCfg
    /\ generating = {}
    /\ changed = FALSE
    /\ num_states = 0
    /\ combo = <<>>
    /\ main_result = <<>>
    /\ raised = <<>>
    /\ suspended = <<Frame>>
    /\ alone = <<>>

NextShared ==
    \/ Callee = "nfa_to_dfa" /\ NfaToDfaBegin
    \/ Callee = "nfa_to_dfa" /\ ForSymbol
    \/ Callee = "nfa_to_dfa" /\ MarkAccept
    \/ Callee = "nfa_to_dfa" /\ NfaToDfaReturn
    \/ Callee = "dfa_to_tm_decider" /\ DfaToTmDecider
    \/ Callee = "simulate_tm" /\ SimulateBegin(SharedInputs, SharedBudgets)
    \/ Callee = "simulate_tm" /\ SimulateStep
    \/ Switch
    \/ CallAlone

SpecShared == InitShared /\ [][NextShared]_vars

-----------------------------------------------------------------------------
(* What it means for an automaton to accept a string *)

\* A DFA description accepts w from state q: following the transition table
\* ends in a state of accept_states; a missing transition rejects
RECURSIVE DfaRun(_, _, _)
DfaRun(d, q, w) ==
    IF w = <<>> THEN q \in Range(d.accept_states)
    ELSE IF <<q, Head(w)>> \in DOMAIN d.transitions
         THEN DfaRun(d, d.transitions[<<q, Head(w)>>], Tail(w))
         ELSE FALSE

DfaAccepts(d, w) == DfaRun(d, d.start_state, w)

\* The NFA moves of one state on one label
Successors(n, q, label) ==
    IF <<q, label>> \in DOMAIN n.transitions THEN n.transitions[<<q, label>>] ELSE {}

\* An NFA configuration <<q, i>>: in state q with i symbols of w consumed
NfaSucc(n, w, c) ==
    { <<r, c[2]>> : r \in Successors(n, c[1], EPS) }
    \cup (IF c[2] < Len(w)
          THEN { <<r, c[2] + 1>> : r \in Successors(n, c[1], w[c[2] + 1]) }
          ELSE {})

RECURSIVE NfaReach(_, _, _)
NfaReach(n, w, C) ==
    LET D == C \cup UNION { NfaSucc(n, w, c) : c \in C }
    IN  IF D = C THEN C ELSE NfaReach(n, w, D)

\* some path of epsilon and symbol moves from the start state consuming w
\* ends in an accept state
NfaAccepts(n, w) ==
    \E c \in NfaReach(n, w, {<<n.start_state, 0>>}) :
        c[2] = Len(w) /\ c[1] \in n.accept_states

Words == StringsUpTo(Range(INPUT_ALPHABET), MaxWord)

\* nfa_to_dfa has returned its DFA to the caller
DfaReturned == pc = "dfa_to_tm_decider"

HasEpsilonMove(n) == \E key \in DOMAIN n.transitions : key[2] = EPS

-----------------------------------------------------------------------------
(* C1: language equivalence of nfa_to_dfa.  For every well-formed NFA and     *)
(* every string over its alphabet, the returned DFA accepts the string from   *)
(* state 0 if and only if the NFA accepts it.                                 *)
C1_LanguageEquivalence ==
    (DfaReturned /\ WellFormedNfa(nfa)) =>
        \A w \in Words : DfaRun(dfa, 0, w) <=> NfaAccepts(nfa, w)

\* an NFA with an epsilon move whose DFA has three states or more and whose
\* language holds a string of two symbols or more and misses another string
C1_Witness ==
    /\ DfaReturned
    /\ WellFormedNfa(nfa)
    /\ HasEpsilonMove(nfa)
    /\ Len(dfa.states) >= 3
    /\ \E w \in Words : Len(w) >= 2 /\ NfaAccepts(nfa, w) /\ DfaRun(dfa, 0, w)
    /\ \E w \in Words : ~NfaAccepts(nfa, w) /\ ~DfaRun(dfa, 0, w)

-----------------------------------------------------------------------------
(* C2: TM fidelity.  For every DFA with states 0..N-1 and every string over   *)
(* its alphabet, the empty string included, simulate_tm on the decider built  *)
(* from the DFA returns verdict 1 if the DFA accepts the string and 0         *)
(* otherwise, a missing DFA transition counting as rejection.                 *)
C2_TmFidelity ==
    (pc = "simulate_returned" /\ Range(input_string) \subseteq Range(dfa.alphabet)) =>
        returned[1] = (IF DfaAccepts(dfa, input_string) THEN 1 ELSE 0)

\* an accepted string of two symbols that visits two states of the DFA
C2_Witness ==
    /\ pc = "simulate_returned"
    /\ Len(input_string) >= 2
    /\ Range(input_string) \subseteq Range(dfa.alphabet)
    /\ <<dfa.start_state, input_string[1]>> \in DOMAIN dfa.transitions
    /\ dfa.transitions[<<dfa.start_state, input_string[1]>>] # dfa.start_state
    /\ DfaAccepts(dfa, input_string)
    /\ returned[1] = 1

-----------------------------------------------------------------------------
(* C3: decider halting.  On a TM built by dfa_to_tm_decider(nfa_to_dfa(nfa)), *)
(* simulate_tm called with max_steps=None always has a next step until it     *)
(* returns, executes at most |input|+1 transitions, is in the accept or the   *)
(* reject sink once |input|+1 transitions are done, and returns from a sink.  *)
Sinks == Range(tm.accept_states) \cup Range(tm.reject_states)

C3_DeciderHalts ==
    /\ pc = "simulate_loop" =>
          /\ max_steps = <<>>
          /\ steps <= Len(input_string) + 1
          /\ steps = Len(input_string) + 1 => state \in Sinks
          /\ ENABLED SimulateStep
    /\ pc = "simulate_returned" =>
          /\ max_steps = <<>>
          /\ steps <= Len(input_string) + 1
          /\ state \in Sinks

\* a run on a longest input that read the whole input and the blank and accepted
C3_Witness ==
    /\ pc = "simulate_returned"
    /\ Len(input_string) = MaxLen
    /\ steps = Len(input_string) + 1
    /\ returned[1] = 1

-----------------------------------------------------------------------------
(* C4: determinism preservation.  The transition mapping of the returned DFA  *)
(* has exactly one target for every pair of a state in 0..N-1 and a symbol of *)
(* the alphabet, and every target is a state in 0..N-1.                       *)
C4_TotalTransitionFunction ==
    DfaReturned =>
        LET N == Len(dfa.states) IN
        /\ Range(dfa.states) = 0 .. (N - 1)
        /\ DOMAIN dfa.transitions = (0 .. (N - 1)) \X Range(dfa.alphabet)
        /\ \A key \in DOMAIN dfa.transitions : dfa.transitions[key] \in 0 .. (N - 1)

\* the index of the empty subset in the list of subsets
DeadIndices == { i \in 0 .. (Len(subsets) - 1) : subsets[i + 1] = {} }

\* a DFA of three states or more, one of them the dead state
C4_Witness ==
    /\ DfaReturned
    /\ Len(dfa.states) >= 3
    /\ DeadIndices # {}

-----------------------------------------------------------------------------
(* C5: subset canonicalization.  A second run of nfa_to_dfa on the same NFA   *)
(* returns the DFA the first run returned (states, alphabet, start state,     *)
(* accept states, transition table), whatever order the members of the state  *)
(* sets were iterated in during either run.                                   *)
C5_SameDfaTwice ==
    (DfaReturned /\ first_dfa # NoDfa) => dfa = first_dfa

\* two runs on an NFA with a state that has two epsilon successors, so that
\* a subset of three states is iterated
C5_Witness ==
    /\ DfaReturned
    /\ first_dfa # NoDfa
    /\ \E key \in DOMAIN nfa.transitions :
          key[2] = EPS /\ Cardinality(nfa.transitions[key]) >= 2
    /\ \E i \in 1 .. Len(subsets) : Cardinality(subsets[i]) >= 3
    /\ Len(dfa.states) >= 2

-----------------------------------------------------------------------------
(* C6: dead state.  In the returned DFA at most one index stands for the      *)
(* empty subset; it is not accepting; every symbol leads from it back to it;  *)
(* and every (subset, symbol) pair whose NFA move set is empty leads to it.   *)
MoveSet(n, subset, symbol) == UNION { Successors(n, q, symbol) : q \in subset }

C6_DeadState ==
    DfaReturned =>
        /\ Cardinality(DeadIndices) <= 1
        /\ \A i \in DeadIndices :
              /\ i \notin Range(dfa.accept_states)
              /\ \A x \in Range(dfa.alphabet) : dfa.transitions[<<i, x>>] = i
        /\ \A i \in 0 .. (Len(subsets) - 1), x \in Range(dfa.alphabet) :
              MoveSet(nfa, subsets[i + 1], x) = {} => dfa.transitions[<<i, x>>] \in DeadIndices

\* a DFA with an accepting state and a transition from a live state into the
\* dead state
C6_Witness ==
    /\ DfaReturned
    /\ dfa.accept_states # <<>>
    /\ \E i \in 0 .. (Len(subsets) - 1), x \in Range(dfa.alphabet) :
          /\ subsets[i + 1] # {}
          /\ dfa.transitions[<<i, x>>] \in DeadIndices

-----------------------------------------------------------------------------
(* C7: totality of the decider.  The transition mapping returned by           *)
(* dfa_to_tm_decider has an entry for every pair of a DFA state 0..N-1 and a  *)
(* symbol of the DFA's alphabet or the blank, and no entry whose source state *)
(* is the accept sink or the reject sink.                                     *)
TmBuilt == pc = "simulate_tm"

C7_TotalDecider ==
    TmBuilt =>
        LET N == Len(dfa.states) IN
        /\ \A s \in 0 .. (N - 1), x \in Range(dfa.alphabet) \cup {tm.blank} :
              <<s, x>> \in DOMAIN tm.transitions
        /\ \A key \in DOMAIN tm.transitions : key[1] \notin Sinks

\* a decider built from a two-state DFA with a missing transition
C7_Witness ==
    /\ TmBuilt
    /\ Len(dfa.states) >= 2
    /\ \E s \in Range(dfa.states), x \in Range(dfa.alphabet) :
          <<s, x>> \notin DOMAIN dfa.transitions

-----------------------------------------------------------------------------
(* C8: a lookup gap degrades to reject.  When simulate_tm is in a state that  *)
(* is no sink, its budget is not used up and the symbol under the head has no *)
(* rule for that state, the step returns verdict 0 with the trace holding the *)
(* configurations recorded so far, the current one included as the last.      *)
SymbolUnderHead ==
    IF 0 <= head /\ head < Len(tape) THEN tape[head + 1] ELSE tm.blank

LookupGap ==
    /\ pc = "simulate_loop"
    /\ state \notin Sinks
    /\ ~(max_steps # <<>> /\ steps >= max_steps[1])
    /\ <<state, SymbolUnderHead>> \notin DOMAIN tm.transitions

C8_LookupGapRejects ==
    [][LookupGap =>
          /\ pc' = "simulate_returned"
          /\ returned' = <<0, Append(configurations, format_configuration(state, tape, head))>>
          /\ Len(returned'[2]) = steps + 1]_vars

\* a run that executed two transitions or more and then found no rule
C8_Witness ==
    /\ pc = "simulate_returned"
    /\ state \notin Sinks
    /\ ~(max_steps # <<>> /\ steps >= max_steps[1])
    /\ steps >= 2
    /\ returned[1] = 0
    /\ Len(returned[2]) = 3

-----------------------------------------------------------------------------
(* C9: step budget.  With max_steps = k, simulate_tm executes at most k       *)
(* transitions; in a state that is no sink after k transitions it returns     *)
(* verdict 0 with the trace so far, of at most k+1 configurations; in a sink  *)
(* after k transitions or fewer it returns the verdict of the sink.           *)
C9_StepBudget ==
    [][(pc = "simulate_loop" /\ max_steps # <<>>) =>
          LET k == max_steps[1] IN
          /\ steps <= k
          /\ steps' <= k
          /\ state \in Range(tm.accept_states) =>
                pc' = "simulate_returned" /\ returned'[1] = 1
          /\ (state \in Range(tm.reject_states) /\ state \notin Range(tm.accept_states)) =>
                pc' = "simulate_returned" /\ returned'[1] = 0
          /\ (state \notin Sinks /\ steps = k) =>
                /\ pc' = "simulate_returned"
                /\ returned'[1] = 0
                /\ returned'[2] = Append(configurations, format_configuration(state, tape, head))
                /\ Len(returned'[2]) <= k + 1]_vars

\* a run that used up a budget of two transitions or more outside the sinks
C9_Witness ==
    /\ pc = "simulate_returned"
    /\ max_steps # <<>>
    /\ max_steps[1] >= 2
    /\ steps = max_steps[1]
    /\ state \notin Sinks
    /\ returned[1] = 0

\* a run that reached the accept sink with the last transition of its budget
C9_SinkAtBudget ==
    /\ pc = "simulate_returned"
    /\ max_steps # <<>>
    /\ max_steps[1] >= 1
    /\ steps = max_steps[1]
    /\ state \in Range(tm.accept_states)
    /\ returned[1] = 1

-----------------------------------------------------------------------------
(* C10: input validation.  nfa_to_dfa called with an NFA whose start state is *)
(* not in its state set returns no DFA.                                       *)
C10_MalformedStartRejected ==
    nfa.start_state \notin nfa.states => dfa = NoDfa

-----------------------------------------------------------------------------
(* C11 as claimed: on the TM built from the example NFA, simulate_tm returns  *)
(* 1 for "abb", 0 for "ab" and 0 for the empty string.                        *)
C11_AsClaimed ==
    (pc = "simulate_returned" /\ nfa = build_example_nfa) =>
        /\ input_string = <<"a", "b", "b">> => returned[1] = 1
        /\ input_string = <<"a", "b">> => returned[1] = 0
        /\ input_string = <<>> => returned[1] = 0

(* C11 amended: example pipeline verdicts.  The example NFA accepts the       *)
(* strings that end in "ab".  On the TM built from it, simulate_tm returns 1  *)
(* for "ab", 0 for "abb" and 0 for the empty string, the empty string being   *)
(* rejected by the first transition, which reads the blank in the             *)
(* non-accepting start state and enters the reject sink.                      *)
C11_ExampleVerdicts ==
    (pc = "simulate_returned" /\ nfa = build_example_nfa) =>
        /\ input_string = <<"a", "b">> => returned[1] = 1
        /\ input_string = <<"a", "b", "b">> => returned[1] = 0
        /\ input_string = <<>> =>
              /\ returned[1] = 0
              /\ 0 \notin Range(dfa.accept_states)
              /\ steps = 1
              /\ state \in Range(tm.reject_states)
              /\ returned[2] = <<format_configuration(tm.start_state, <<"_">>, 0),
                                 format_configuration(state, <<"_">>, 1)>>

\* the run of main: "abb" is rejected after reading three symbols and the blank
C11_Witness ==
    /\ pc = "simulate_returned"
    /\ nfa = build_example_nfa
    /\ input_string = <<"a", "b", "b">>
    /\ steps = 4
    /\ returned[1] = 0

\* the run on "ab", accepted after reading two symbols and the blank
C11_WitnessAccepts ==
    /\ pc = "simulate_returned"
    /\ nfa = build_example_nfa
    /\ input_string = <<"a", "b">>
    /\ steps = 3
    /\ returned[1] = 1

-----------------------------------------------------------------------------
\* The least set of states that contains S and is closed under the epsilon
\* moves of the NFA
RECURSIVE EpsilonReach(_, _)
EpsilonReach(n, S) ==
    LET T == S \cup UNION { Successors(n, q, EPS) : q \in S }
    IN  IF T = S THEN S ELSE EpsilonReach(n, T)

\* the epsilon-closure of the start state holds an accept state
StartReachesAccept(n) == EpsilonReach(n, {n.start_state}) \cap n.accept_states # {}

(* C12: accepting start via epsilon.  When the epsilon-closure of the start   *)
(* state of the NFA holds an accept state, the DFA returned by nfa_to_dfa has *)
(* state 0 among its accept states, and simulate_tm on the decider built from *)
(* it returns 1 for the empty string.                                         *)
C12_AcceptingStart ==
    StartReachesAccept(nfa) =>
        /\ pc \in {"dfa_to_tm_decider", "simulate_tm", "simulate_loop", "simulate_returned"} =>
              /\ dfa.start_state = 0
              /\ 0 \in Range(dfa.accept_states)
        /\ (pc = "simulate_returned" /\ input_string = <<>>) => returned[1] = 1

\* the empty string accepted for an NFA whose start state is not accepting
\* and reaches an accept state by an epsilon move
C12_Witness ==
    /\ pc = "simulate_returned"
    /\ input_string = <<>>
    /\ nfa.start_state \notin nfa.accept_states
    /\ StartReachesAccept(nfa)
    /\ 0 \in Range(dfa.accept_states)
    /\ returned[1] = 1

-----------------------------------------------------------------------------
\* The nonterminal A derives a string of terminals by a derivation tree of
\* height h or less, the epsilon marker standing for the empty string
RECURSIVE DerivesString(_, _, _)
DerivesString(c, A, h) ==
    /\ h > 0
    /\ A \in DOMAIN c.productions
    /\ \E k \in 1 .. Len(c.productions[A]) :
          LET rs == c.productions[A][k]
          IN  \A i \in 1 .. Len(rs) :
                 rs[i] \in Range(c.nonterminals) => DerivesString(c, rs[i], h - 1)

\* a minimal derivation tree repeats no nonterminal on a path
Derives(c, A) == DerivesString(c, A, Len(c.nonterminals))

\* The least set G of nonterminals such that a nonterminal is in G when every
\* nonterminal of the right side of one of its productions is in G
RECURSIVE LeastGenerating(_, _)
LeastGenerating(c, G) ==
    LET H == G \cup { A \in Range(c.nonterminals) \cap DOMAIN c.productions :
                        \E k \in 1 .. Len(c.productions[A]) :
                           \A i \in 1 .. Len(c.productions[A][k]) :
                              c.productions[A][k][i] \in Range(c.nonterminals)
                                 => c.productions[A][k][i] \in G }
    IN  IF H = G THEN G ELSE LeastGenerating(c, H)

(* C13: CFG emptiness.  cfg_language_is_empty returns 1 when the start symbol *)
(* derives no string of terminals and 0 when it derives one; the set          *)
(* compute_generating_nonterminals ends with is the least set G; the while    *)
(* loop always has a next step until it returns, and every pass that does not *)
(* end the loop adds a nonterminal to the set, so it ends after at most       *)
(* |nonterminals| + 1 passes.                                                 *)
C13_CfgEmptiness ==
    /\ [](pc = "cfg_returned" =>
            /\ generating = LeastGenerating(cfg, {})
            /\ generating = { A \in Range(cfg.nonterminals) : Derives(cfg, A) }
            /\ main_result = <<IF Derives(cfg, cfg.start_symbol) THEN 0 ELSE 1>>)
    /\ [](pc = "compute_generating" =>
            /\ generating \subseteq Range(cfg.nonterminals)
            /\ ENABLED (GeneratingPass \/ CfgLanguageIsEmptyReturn))
    /\ [][(pc = "compute_generating" /\ pc' = "compute_generating") =>
              IF changed'
              THEN generating \subseteq generating' /\ generating # generating'
              ELSE generating' = generating]_vars

\* a grammar whose start symbol comes first in the list and becomes
\* generating one pass after the other nonterminal
C13_Witness ==
    /\ pc = "cfg_returned"
    /\ cfg.start_symbol = cfg.nonterminals[1]
    /\ generating = Range(cfg.nonterminals)
    /\ ~DerivesString(cfg, cfg.start_symbol, 1)
    /\ main_result = <<0>>

\* a grammar whose start symbol has a production and whose language is empty
C13_WitnessEmpty ==
    /\ pc = "cfg_returned"
    /\ cfg.start_symbol \in DOMAIN cfg.productions
    /\ generating # {}
    /\ main_result = <<1>>

-----------------------------------------------------------------------------
\* A well-formed machine description: a positive number of states, a start
\* state among them, a blank of the tape alphabet, and a rule for exactly
\* every pair of a state and a tape symbol, each rule naming a state or HALT,
\* a tape symbol and a move
WellFormedMachine(m) ==
    /\ m.num_states > 0
    /\ m.start_state \in 0 .. (m.num_states - 1)
    /\ m.blank \in Range(TAPE_ALPHABET)
    /\ DOMAIN m.transitions = (0 .. (m.num_states - 1)) \X Range(TAPE_ALPHABET)
    /\ \A key \in DOMAIN m.transitions :
          /\ m.transitions[key][1] \in (0 .. (m.num_states - 1)) \cup {HALT}
          /\ m.transitions[key][2] \in Range(TAPE_ALPHABET)
          /\ m.transitions[key][3] \in Range(MOVES)

(* C14: validate_tm verdict.  Every call of validate_tm returns 0 or 1 and    *)
(* raises nothing; it returns 1 for a well-formed machine, every machine      *)
(* yielded by enumerate_tms being one, and 0 for any other, such as a copy    *)
(* with one transition removed or with blank 'x'.                             *)
C14_ValidateVerdict ==
    pc = "ValidateTM.validated" =>
        /\ raised = <<>>
        /\ main_result = <<IF WellFormedMachine(tm) THEN 1 ELSE 0>>

(* C15: enumeration order and shape.  A call of next on the generator         *)
(* enumerate_tms of EnumerateTM.py raises nothing and yields a machine; the   *)
(* first machine has one state, start_state 0, blank '_' and a transitions    *)
(* mapping with an entry for every pair of a state and a tape symbol, whose   *)
(* value is the rule assigned to that position.                               *)
C15_EnumerationShape ==
    pc = "EnumerateTM.next_done" =>
        /\ raised = <<>>
        /\ tm = MachineOf(num_states, combo)
        /\ tm.num_states = 1
        /\ tm.start_state = 0
        /\ tm.blank = "_"
        /\ DOMAIN tm.transitions = (0 .. (tm.num_states - 1)) \X Range(TAPE_ALPHABET)

-----------------------------------------------------------------------------
(* C16 as claimed: for a DFA of N states the TM returned by dfa_to_tm_decider *)
(* has num_states equal to N, its accept and reject sinks are two states      *)
(* beyond num_states, and its start state is the start state of the DFA.      *)
C16_AsClaimed ==
    TmBuilt =>
        /\ tm.num_states = Len(dfa.states)
        /\ \A s \in Sinks : s >= tm.num_states
        /\ Cardinality(Sinks) = 2
        /\ tm.start_state = dfa.start_state

(* C16 amended: state count of the decider.  For a DFA of N states the TM     *)
(* returned by dfa_to_tm_decider has num_states equal to N + 2: the N states  *)
(* inherited from the DFA, indices 0..N-1, which are the states with rules,   *)
(* and the accept sink N and the reject sink N + 1, the last two indices      *)
(* below num_states; its start state is the start state of the DFA.           *)
C16_StateCount ==
    TmBuilt =>
        LET N == Len(dfa.states) IN
        /\ tm.num_states = N + 2
        /\ { key[1] : key \in DOMAIN tm.transitions } = 0 .. (N - 1)
        /\ tm.accept_states = <<N>>
        /\ tm.reject_states = <<N + 1>>
        /\ Sinks = (tm.num_states - 2) .. (tm.num_states - 1)
        /\ tm.start_state = dfa.start_state

\* a decider built from a DFA of two states or more that starts in its last state
C16_Witness ==
    /\ TmBuilt
    /\ Len(dfa.states) >= 2
    /\ dfa.start_state = Len(dfa.states) - 1
    /\ tm.start_state = dfa.start_state
    /\ tm.num_states = Len(dfa.states) + 2

-----------------------------------------------------------------------------
\* the states a step of the worklist loop pushed: what the stack holds beyond
\* the part left after the pop
Pushed == SubSeq(ec_stack', Len(ec_stack), Len(ec_stack'))

NoRepeat(s) == \A i, j \in 1 .. Len(s) : s[i] = s[j] => i = j

(* C17: epsilon_closure.  The call returns the least set that contains         *)
(* state_set and is closed under epsilon moves; while the loop runs, the       *)
(* stack holds no state twice and only states of the closure, a step pushes    *)
(* only states that were not in the closure and adds them to it, so no state   *)
(* is pushed twice; the loop always has a next step until it returns, and the  *)
(* number of states outside the closure, counted twice, plus the length of     *)
(* the stack falls with every step; a call on the returned set returns that    *)
(* set.                                                                        *)
C17_EpsilonClosure ==
    /\ [](pc = "closure_loop" =>
            /\ ec_state_set \subseteq ec_closure
            /\ ec_closure \subseteq EpsilonReach(nfa, ec_state_set)
            /\ Range(ec_stack) \subseteq ec_closure
            /\ NoRepeat(ec_stack)
            /\ ENABLED (ClosurePop \/ ClosureReturn))
    /\ [](pc = "closure_returned" =>
            /\ ec_closure = EpsilonReach(nfa, ec_state_set)
            /\ epsilon_closure(nfa, ec_state_set) = {ec_closure}
            /\ first_closure # <<>> => ec_closure = first_closure[1])
    /\ [][(pc = "closure_loop" /\ pc' = "closure_loop") =>
              /\ SubSeq(ec_stack', 1, Len(ec_stack) - 1) = SubSeq(ec_stack, 1, Len(ec_stack) - 1)
              /\ Range(Pushed) \cap ec_closure = {}
              /\ NoRepeat(Pushed)
              /\ ec_closure' = ec_closure \cup Range(Pushed)
              /\ 2 * Cardinality(NfaStates \ ec_closure') + Len(ec_stack')
                    < 2 * Cardinality(NfaStates \ ec_closure) + Len(ec_stack)]_vars

\* a call on one state whose closure is the three states, one of them reached
\* through another, in an NFA with an epsilon cycle; then the call on the result
C17_Witness ==
    /\ pc = "closure_returned"
    /\ first_closure # <<>>
    /\ ec_closure = NfaStates
    /\ \E q \in NfaStates :
          /\ Successors(nfa, q, EPS) \notin {{}, NfaStates, NfaStates \ {q}}
          /\ EpsilonReach(nfa, {q}) = NfaStates
          /\ first_closure[1] = NfaStates

\* a first call on one state that has a single epsilon successor and whose
\* closure is the three states
C17_WitnessChain ==
    /\ pc = "closure_returned"
    /\ first_closure = <<>>
    /\ Cardinality(ec_state_set) = 1
    /\ \A q \in ec_state_set : Cardinality(Successors(nfa, q, EPS)) = 1
    /\ ec_closure = NfaStates

-----------------------------------------------------------------------------
\* The DFA state indices reachable from index 0 along the transitions made so far
RECURSIVE ReachableIndices(_)
ReachableIndices(I) ==
    LET J == I \cup { dfa_transitions[key] : key \in { k \in DOMAIN dfa_transitions : k[1] \in I } }
    IN  IF J = I THEN I ELSE ReachableIndices(J)

(* C18: the subset index table is an append-only interning table.  During and *)
(* after the loop of nfa_to_dfa, subset_to_index gives different subsets      *)
(* different indices, its values are exactly 0..len(subsets)-1 and            *)
(* subsets[subset_to_index[S]] is S; the transitions made so far leave the    *)
(* indices up to index only, every index below index has all its transitions, *)
(* every index above 0 is the target of a transition from a smaller index and *)
(* is reachable from index 0.  A step never changes or removes the index of a *)
(* subset, only appends to subsets, moves index to the next index at most,    *)
(* and adds transitions from the current index only.                          *)
C18_InterningTable ==
    /\ [](pc \in {"subset_loop", "dfa_to_tm_decider"} =>
            /\ \A S, T \in DOMAIN subset_to_index :
                  subset_to_index[S] = subset_to_index[T] => S = T
            /\ { subset_to_index[S] : S \in DOMAIN subset_to_index } = 0 .. (Len(subsets) - 1)
            /\ \A S \in DOMAIN subset_to_index : subsets[subset_to_index[S] + 1] = S
            /\ index <= Len(subsets)
            /\ \A key \in DOMAIN dfa_transitions :
                  /\ key[1] <= index
                  /\ key[1] < Len(subsets)
                  /\ dfa_transitions[key] \in 0 .. (Len(subsets) - 1)
            /\ \A i \in 0 .. (index - 1), x \in Range(nfa.alphabet) : <<i, x>> \in DOMAIN dfa_transitions
            /\ dfa_accept_states \subseteq 0 .. (index - 1)
            /\ \A i \in 1 .. (Len(subsets) - 1) :
                  \E key \in DOMAIN dfa_transitions : dfa_transitions[key] = i /\ key[1] < i
            /\ ReachableIndices({0}) = 0 .. (Len(subsets) - 1))
    /\ [][pc = "subset_loop" =>
              /\ \A S \in DOMAIN subset_to_index :
                    S \in DOMAIN subset_to_index' /\ subset_to_index'[S] = subset_to_index[S]
              /\ Len(subsets') >= Len(subsets)
              /\ SubSeq(subsets', 1, Len(subsets)) = subsets
              /\ index' \in {index, index + 1}
              /\ \A key \in DOMAIN dfa_transitions :
                    key \in DOMAIN dfa_transitions' /\ dfa_transitions'[key] = dfa_transitions[key]
              /\ \A key \in DOMAIN dfa_transitions' \ DOMAIN dfa_transitions : key[1] = index]_vars

\* a run that found three subsets or more, handled two of them, and met a
\* subset found earlier again as the target of a transition from another index
C18_Witness ==
    /\ pc = "subset_loop"
    /\ Len(subsets) >= 3
    /\ index >= 2
    /\ \E key \in DOMAIN dfa_transitions :
          /\ key[1] >= 1
          /\ dfa_transitions[key] < key[1]
          /\ subsets[dfa_transitions[key] + 1] # {}

-----------------------------------------------------------------------------
\* the number of subsets of the state set of the NFA
SubsetBound == 2 ^ Cardinality(nfa.states)

\* the steps the loops of nfa_to_dfa have left at most: for every index still
\* to come, one per symbol and one to close the index
LoopMeasure == (SubsetBound - index) * (Len(nfa.alphabet) + 1) - (sym - 1)

(* C19: termination of the subset construction.  For an NFA whose start state *)
(* and transition targets belong to its state set, every subset in the list   *)
(* is a set of states of the NFA and the list holds no subset twice, so it    *)
(* has at most 2^|nfa.states| entries; the loop always has a next step until  *)
(* nfa_to_dfa returns; a measure that is never negative falls with every step *)
(* of the loop; and the returned DFA has at most 2^|nfa.states| states.       *)
C19_SubsetConstructionTerminates ==
    /\ []((pc = "subset_loop" /\ WellFormedNfa(nfa)) =>
            /\ \A i \in 1 .. Len(subsets) : subsets[i] \subseteq nfa.states
            /\ NoRepeat(subsets)
            /\ Len(subsets) <= SubsetBound
            /\ index <= Len(subsets)
            /\ LoopMeasure >= 0
            /\ ENABLED (ForSymbol \/ MarkAccept \/ NfaToDfaReturn))
    /\ []((DfaReturned /\ WellFormedNfa(nfa)) => Len(dfa.states) <= SubsetBound)
    /\ [][(pc = "subset_loop" /\ pc' = "subset_loop" /\ WellFormedNfa(nfa)) =>
              LoopMeasure' < LoopMeasure]_vars

\* a returned DFA of four states: the start subset, two more and the dead state
C19_Witness ==
    /\ DfaReturned
    /\ WellFormedNfa(nfa)
    /\ Len(dfa.states) >= 4
    /\ DeadIndices # {}

-----------------------------------------------------------------------------
\* the tape is the input followed by one blank or more
InputThenBlanks ==
    /\ Len(tape) > Len(input_string)
    /\ \A i \in 1 .. Len(tape) :
          tape[i] = IF i <= Len(input_string) THEN input_string[i] ELSE tm.blank

(* C20: non-destructive rightward scan.  Every rule of a TM returned by       *)
(* dfa_to_tm_decider writes the symbol it reads and moves right.  During      *)
(* simulate_tm on such a TM the tape is the input followed by blanks, the     *)
(* head position is the number of transitions executed and is never           *)
(* negative, and no step changes the content of a tape cell.                  *)
C20_RightwardScan ==
    /\ [](pc \in {"simulate_tm", "simulate_loop", "simulate_returned"} =>
            \A key \in DOMAIN tm.transitions :
               tm.transitions[key][2] = key[2] /\ tm.transitions[key][3] = "R")
    /\ [](pc \in {"simulate_loop", "simulate_returned"} =>
            /\ InputThenBlanks
            /\ head = steps
            /\ head >= 0)
    /\ [][pc = "simulate_loop" =>
              /\ Len(tape') >= Len(tape)
              /\ \A i \in 1 .. Len(tape) : tape'[i] = tape[i]
              /\ head' \in {head, head + 1}]_vars

\* a run that read two input symbols and the blank, its tape being as at the start
C20_Witness ==
    /\ pc = "simulate_returned"
    /\ Len(input_string) = 2
    /\ input_string[1] # input_string[2]
    /\ steps = 3
    /\ head = 3
    /\ tape = Append(input_string, tm.blank)

-----------------------------------------------------------------------------
\* the iteration of the while loop passes lines 199-206 and reaches line 209
ReachesTape ==
    /\ pc = "simulate_loop"
    /\ state \notin Sinks
    /\ ~(max_steps # <<>> /\ steps >= max_steps[1])

\* the position of the cell that line 216 reads and line 222 writes
CellUsed == IF head = -1 THEN 0 ELSE head

(* C21: the head stays on the materialized tape.  A recorded configuration    *)
(* has -1 <= head <= len(tape).  An iteration that reaches the tape reads     *)
(* and writes a cell with 0 <= position < len(tape): with the head at -1 one  *)
(* cell is inserted at the left end, the head becomes 0 and the cells of      *)
(* before keep their contents and order, one place further right; with the    *)
(* head at len(tape) one cell is appended; in both cases the new cell holds   *)
(* the blank until the transition writes it.  The tape never shrinks and      *)
(* grows by at most one cell per iteration.                                   *)
C21_HeadOnTape ==
    /\ [](pc \in {"simulate_loop", "simulate_returned"} =>
            /\ Len(tape) >= 1
            /\ -1 <= head
            /\ head <= Len(tape))
    /\ [][pc = "simulate_loop" =>
              /\ Len(tape') >= Len(tape)
              /\ Len(tape') <= Len(tape) + 1]_vars
    /\ [][(pc = "simulate_loop" /\ ~ReachesTape) =>
              (tape' = tape /\ head' = head)]_vars
    /\ [][ReachesTape =>
              LET shift == IF head = -1 THEN 1 ELSE 0
                  grown == head = -1 \/ head = Len(tape)
              IN  /\ 0 <= CellUsed
                  /\ CellUsed < Len(tape')
                  /\ Len(tape') = Len(tape) + (IF grown THEN 1 ELSE 0)
                  /\ \A i \in 1 .. Len(tape) :
                        i + shift # CellUsed + 1 => tape'[i + shift] = tape[i]
                  /\ IF steps' = steps
                     THEN \* no rule: the tape as extended, the head on the cell read
                          /\ head' = CellUsed
                          /\ tape' = (IF head = -1 THEN <<tm.blank>> \o tape
                                      ELSE IF head = Len(tape) THEN Append(tape, tm.blank)
                                      ELSE tape)
                     ELSE \* a transition: the cell is written, the head moves by one
                          /\ <<state, (IF grown THEN tm.blank ELSE tape[head + 1])>>
                                \in DOMAIN tm.transitions
                          /\ tape'[CellUsed + 1] =
                                tm.transitions[<<state, (IF grown THEN tm.blank
                                                         ELSE tape[head + 1])>>][2]
                          /\ head' \in {CellUsed - 1, CellUsed + 1}]_vars

\* the head was at -1, a cell was inserted and written, and the head went left
\* again; the cell written before the insertion is the last one and kept its symbol
C21_Witness ==
    /\ pc = "simulate_loop"
    /\ steps >= 2
    /\ head = -1
    /\ Len(tape) = Len(input_string) + 2
    /\ tape[Len(tape)] # tm.blank

\* the head was at len(tape), a cell was appended and written, and the head went right
C21_WitnessRight ==
    /\ pc = "simulate_loop"
    /\ steps >= 2
    /\ head = Len(tape)
    /\ Len(tape) = Len(input_string) + 2

-----------------------------------------------------------------------------
\* the configuration simulate_tm starts from: start state, input and one blank, head 0
InitialConfiguration ==
    format_configuration(tm.start_state, Append(input_string, tm.blank), 0)

(* C22: trace shape.  The trace simulate_tm returns is non-empty and is the   *)
(* list it recorded; its first entry is the initial configuration; one        *)
(* configuration is recorded in every iteration, before the transition if     *)
(* there is one, so that the trace has one entry per transition executed and  *)
(* one more; an entry, once recorded, is not altered by a later iteration;    *)
(* verdict 1 is returned only with the last entry being the configuration of  *)
(* an accept state.                                                            *)
C22_TraceShape ==
    /\ [](pc = "simulate_loop" =>
            /\ Len(configurations) = steps
            /\ steps >= 1 => configurations[1] = InitialConfiguration)
    /\ [](pc = "simulate_returned" =>
            /\ returned[2] = configurations
            /\ returned[2] # <<>>
            /\ returned[2][1] = InitialConfiguration
            /\ Len(returned[2]) = steps + 1
            /\ returned[1] \in {0, 1}
            /\ returned[1] = 1 =>
                  /\ state \in Range(tm.accept_states)
                  /\ returned[2][Len(returned[2])] =
                        format_configuration(state, tape, head))
    /\ [][pc = "simulate_loop" =>
              /\ Len(configurations') = Len(configurations) + 1
              /\ SubSeq(configurations', 1, Len(configurations)) = configurations
              /\ configurations'[Len(configurations')] =
                    format_configuration(state, tape, head)]_vars

\* an accepted run of one transition on the input "ab" that wrote b over the a:
\* the first entry still shows the tape of the start
C22_Witness ==
    /\ pc = "simulate_returned"
    /\ returned[1] = 1
    /\ input_string = <<"a", "b">>
    /\ returned[2] = << "state=0, tape=ab_, head pos=0",
                        "state=1, tape=bb_, head pos=1" >>

-----------------------------------------------------------------------------
\* a step of the running call: no switch to the other call, no call begun again
StepOfCall ==
    /\ suspended' = suspended
    /\ alone' = alone

(* C23: no shared mutable state.  No step of nfa_to_dfa, dfa_to_tm_decider   *)
(* or simulate_tm changes the NFA, the DFA or the TM the caller holds, and a  *)
(* step of simulate_tm changes neither its input string nor its budget.  A    *)
(* call that ran interleaved in any order with another call on the same       *)
(* value, run again alone with the same arguments, returns the value it       *)
(* returned before: the same DFA, the same TM, the same verdict and trace.    *)
C23_NoSharedState ==
    /\ [][/\ nfa' = nfa
          /\ Callee # "nfa_to_dfa" => dfa' = dfa
          /\ Callee = "simulate_tm" => tm' = tm]_vars
    /\ [][(StepOfCall /\ pc = "simulate_loop") =>
              (input_string' = input_string /\ max_steps' = max_steps)]_vars
    /\ []((alone # <<>> /\ pc = ReturnPc) => CallResult = alone[1].result)

\* two simulations on one TM, of different inputs and different results, one of
\* two transitions; the latter has returned the same again on its own
C23_Witness ==
    /\ Callee = "simulate_tm"
    /\ alone # <<>>
    /\ pc = ReturnPc
    /\ steps >= 2
    /\ suspended[1].pc = ReturnPc
    /\ suspended[1].input_string # input_string
    /\ suspended[1].returned # returned

\* two determinizations of one NFA whose DFA has three states; one of them has
\* returned the same DFA again on its own
C23_WitnessDfa ==
    /\ Callee = "nfa_to_dfa"
    /\ alone # <<>>
    /\ pc = ReturnPc
    /\ suspended[1].pc = ReturnPc
    /\ Len(dfa.states) = 3
    /\ suspended[1].result = dfa

\* two constructions of the decider of one DFA of two states; one of them has
\* returned the same TM again on its own
C23_WitnessTm ==
    /\ Callee = "dfa_to_tm_decider"
    /\ alone # <<>>
    /\ pc = ReturnPc
    /\ Len(dfa.states) = 2
    /\ suspended[1].result = tm

====
